---- MODULE Spec2Model ----
(***************************************************************************)
(* A model of binarymap.BinaryMap (src/binarymap/binarymap.py): the        *)
(* construction of the substitution <-> index registry and of the binary   *)
(* matrix, and the query methods of a constructed map.                     *)
(*                                                                         *)
(* A Python str is modelled as a sequence of one-character strings, so     *)
(* that splitting, regular-expression matching, int() and the formatting   *)
(* of an int are computed rather than assumed.                             *)
(***************************************************************************)
EXTENDS Integers, Sequences, FiniteSets, TLC

VARIABLES
    alphabet,       \* parameter `alphabet` of __init__
    allowed_subs,   \* parameter `allowed_subs`: None or a set of tokens
    sites_as_str,   \* parameter `sites_as_str`
    expand,         \* parameter `expand`
    wtseq,          \* parameter `wtseq`: None or a str
    func_scores_df, \* the substitutions column of the input records
    objs,           \* the BinaryMap objects of the program, by name
    last            \* the last call made and what it returned or raised

vars == <<alphabet, allowed_subs, sites_as_str, expand, wtseq,
          func_scores_df, objs, last>>

options == <<alphabet, allowed_subs, sites_as_str, expand, wtseq, func_scores_df>>

\* Python's None, and a parameter that is given a value
None == [none |-> TRUE]
Some(v) == [none |-> FALSE, val |-> v]

-----------------------------------------------------------------------------
(* Strings *)

\* the characters \d matches in a str pattern, those of them the model uses:
\* '0'..'9' and U+0661 ARABIC-INDIC DIGIT ONE, a decimal digit of Unicode that
\* is written here by its code point
Digits == {"0", "1", "2", "3", "4", "5", "6", "7", "8", "9", "u0661"}

\* int() of one digit
DigitVal(c) ==
    CASE c = "0" -> 0 [] c = "1" -> 1 [] c = "2" -> 2 [] c = "3" -> 3
      [] c = "4" -> 4 [] c = "5" -> 5 [] c = "6" -> 6 [] c = "7" -> 7
      [] c = "8" -> 8 [] c = "9" -> 9 [] c = "u0661" -> 1

\* str() of a number below ten
DigitChar(d) ==
    CASE d = 0 -> "0" [] d = 1 -> "1" [] d = 2 -> "2" [] d = 3 -> "3"
      [] d = 4 -> "4" [] d = 5 -> "5" [] d = 6 -> "6" [] d = 7 -> "7"
      [] d = 8 -> "8" [] d = 9 -> "9"

\* ord() of the characters the model uses: Python orders str by code point
Ord(c) ==
    CASE c = " " -> 32 [] c = "*" -> 42 [] c = "+" -> 43 [] c = "-" -> 45
      [] c \in Digits \ {"u0661"} -> 48 + DigitVal(c)
      [] c = "u0661" -> 1633
      [] c = "A" -> 65 [] c = "C" -> 67 [] c = "G" -> 71 [] c = "K" -> 75
      [] c = "M" -> 77 [] c = "a" -> 97 [] c = "b" -> 98

\* str.isalpha() of one character
IsAlpha(c) == c \in {"A", "C", "G", "K", "M", "a", "b"}

\* a < b for two str
RECURSIVE StrLess(_, _)
StrLess(a, b) ==
    IF a = <<>> THEN b # <<>>
    ELSE IF b = <<>> THEN FALSE
    ELSE IF Head(a) = Head(b) THEN StrLess(Tail(a), Tail(b))
    ELSE Ord(Head(a)) < Ord(Head(b))

\* int(s) for a run of digits, most significant first
RECURSIVE DigitsToNat(_, _)
DigitsToNat(s, acc) ==
    IF s = <<>> THEN acc ELSE DigitsToNat(Tail(s), 10 * acc + DigitVal(Head(s)))

\* int(s) for s matching [-+]?\d+
StrToInt(s) ==
    IF Head(s) = "-" THEN 0 - DigitsToNat(Tail(s), 0)
    ELSE IF Head(s) = "+" THEN DigitsToNat(Tail(s), 0)
    ELSE DigitsToNat(s, 0)

\* str(n) for a natural number
RECURSIVE NatToStr(_)
NatToStr(n) ==
    IF n < 10 THEN <<DigitChar(n)>>
    ELSE NatToStr(n \div 10) \o <<DigitChar(n % 10)>>

\* str(n), as an f-string formats an int
IntToStr(n) == IF n < 0 THEN <<"-">> \o NatToStr(0 - n) ELSE NatToStr(n)

\* str.split(): the maximal runs of non-whitespace characters
RECURSIVE SplitFrom(_, _, _)
SplitFrom(s, cur, out) ==
    IF s = <<>> THEN (IF cur = <<>> THEN out ELSE Append(out, cur))
    ELSE IF Head(s) = " "
         THEN SplitFrom(Tail(s), <<>>, IF cur = <<>> THEN out ELSE Append(out, cur))
         ELSE SplitFrom(Tail(s), Append(cur, Head(s)), out)

Split(s) == SplitFrom(s, <<>>, <<>>)

\* " ".join(parts)
RECURSIVE Join(_)
Join(parts) ==
    IF parts = <<>> THEN <<>>
    ELSE IF Len(parts) = 1 THEN parts[1]
    ELSE parts[1] \o <<" ">> \o Join(Tail(parts))

\* the elements of a sequence
Range(s) == {s[i] : i \in DOMAIN s}

\* sorted(xs) for a list of int
RECURSIVE InsertInt(_, _)
InsertInt(x, sorted) ==
    IF sorted = <<>> THEN <<x>>
    ELSE IF x < Head(sorted) THEN <<x>> \o sorted
    ELSE <<Head(sorted)>> \o InsertInt(x, Tail(sorted))

RECURSIVE SortedInts(_)
SortedInts(xs) ==
    IF xs = <<>> THEN <<>>
    ELSE InsertInt(xs[Len(xs)], SortedInts(SubSeq(xs, 1, Len(xs) - 1)))

\* sorted(S) for a set of str
RECURSIVE SortedStrs(_)
SortedStrs(S) ==
    IF S = {} THEN <<>>
    ELSE LET m == CHOOSE x \in S : \A y \in S : y = x \/ StrLess(x, y)
         IN <<m>> \o SortedStrs(S \ {m})

-----------------------------------------------------------------------------
(* Exceptions and results *)

\* a call that returned val
Ok(val) == [ok |-> TRUE, val |-> val]

\* a call that raised ValueError(msg), with the value the message formats
Raise(msg, arg) == [ok |-> FALSE, exc |-> "ValueError", msg |-> msg, arg |-> arg]

-----------------------------------------------------------------------------
(* The substitution grammar *)

\* the match of the site group: -?\d+ for int sites, .+ for str sites
SiteMatches(as_str, site) ==
    IF as_str THEN site # <<>>
    ELSE LET d == IF site # <<>> /\ Head(site) = "-" THEN Tail(site) ELSE site
         IN d # <<>> /\ \A i \in DOMAIN d : d[i] \in Digits

\* re.fullmatch(self._sub_regex, sub): one alphabet character, the site,
\* one alphabet character
SubRegexMatches(alph, as_str, sub) ==
    /\ Len(sub) >= 3
    /\ sub[1] \in Range(alph)
    /\ sub[Len(sub)] \in Range(alph)
    /\ SiteMatches(as_str, SubSeq(sub, 2, Len(sub) - 1))

\* the site of a matched token: the group itself, or int() of it
ParsedSite(as_str, group) == IF as_str THEN group ELSE StrToInt(group)

\* BinaryMap._parse_sub_str
_parse_sub_str(alph, as_str, sub) ==
    IF ~SubRegexMatches(alph, as_str, sub)
    THEN Raise("substitution is invalid for alphabet", sub)
    ELSE IF sub[1] = sub[Len(sub)]
    THEN Raise("wildtype and mutant identity the same", sub)
    ELSE Ok([wt |-> sub[1],
             site |-> ParsedSite(as_str, SubSeq(sub, 2, Len(sub) - 1)),
             mut |-> sub[Len(sub)]])

\* the site of an f-string: str(site)
SiteStr(as_str, site) == IF as_str THEN site ELSE IntToStr(site)

\* f"{wt}{site}{mut}"
FormatSub(as_str, wt, site, mut) == <<wt>> \o SiteStr(as_str, site) \o <<mut>>

-----------------------------------------------------------------------------
(* natsort.natsorted(..., alg=natsort.ns.SIGNED) *)

TextChunk(s) == [num |-> FALSE, n |-> 0, s |-> s]
NumChunk(n) == [num |-> TRUE, n |-> n, s |-> <<>>]

\* the number of leading digits of s
RECURSIVE DigitRun(_)
DigitRun(s) ==
    IF s = <<>> \/ Head(s) \notin Digits THEN 0 ELSE 1 + DigitRun(Tail(s))

\* the key of a str: split on ([-+]?\d+), drop the empty pieces, turn the
\* numbers into int, and put '' before a number that follows no text
RECURSIVE NatSplit(_, _, _)
NatSplit(s, cur, out) ==
    LET flushed == IF cur = <<>> THEN out ELSE Append(out, TextChunk(cur))
    IN  IF s = <<>> THEN flushed
        ELSE LET signed == Head(s) \in {"-", "+"} /\ Len(s) >= 2 /\ s[2] \in Digits
                 from == IF signed THEN 2 ELSE 1
             IN  IF signed \/ Head(s) \in Digits
                 THEN LET n == DigitRun(SubSeq(s, from, Len(s)))
                          number == StrToInt(SubSeq(s, 1, from + n - 1))
                          sep == IF flushed = <<>> \/ flushed[Len(flushed)].num
                                 THEN Append(flushed, TextChunk(<<>>))
                                 ELSE flushed
                      IN  NatSplit(SubSeq(s, from + n, Len(s)), <<>>,
                                   Append(sep, NumChunk(number)))
                 ELSE NatSplit(Tail(s), Append(cur, Head(s)), out)

\* the key of a site: ('', n) for an int, the split str otherwise
NatKey(as_str, site) ==
    IF as_str THEN NatSplit(site, <<>>, <<>>)
    ELSE <<TextChunk(<<>>), NumChunk(site)>>

\* tuple comparison of two keys; text and number alternate in every key, so
\* two chunks at one position are of one kind
RECURSIVE KeyLess(_, _)
KeyLess(a, b) ==
    IF a = <<>> THEN b # <<>>
    ELSE IF b = <<>> THEN FALSE
    ELSE IF Head(a) = Head(b) THEN KeyLess(Tail(a), Tail(b))
    ELSE IF Head(a).num /\ Head(b).num THEN Head(a).n < Head(b).n
    ELSE StrLess(Head(a).s, Head(b).s)

\* the order of two (site, wt) items: by the key of the site, then of wt
ItemLess(as_str, x, y) ==
    LET kx == NatKey(as_str, x[1])
        ky == NatKey(as_str, y[1])
    IN  IF kx # ky THEN KeyLess(kx, ky)
        ELSE KeyLess(NatSplit(<<x[2]>>, <<>>, <<>>), NatSplit(<<y[2]>>, <<>>, <<>>))

\* sorted() is stable: an item goes after the items that are not greater
RECURSIVE InsertItem(_, _, _)
InsertItem(as_str, x, sorted) ==
    IF sorted = <<>> THEN <<x>>
    ELSE IF ItemLess(as_str, x, Head(sorted)) THEN <<x>> \o sorted
    ELSE <<Head(sorted)>> \o InsertItem(as_str, x, Tail(sorted))

\* natsort.natsorted(wts.items(), alg=natsort.ns.SIGNED)
RECURSIVE natsorted(_, _)
natsorted(as_str, items) ==
    IF items = <<>> THEN <<>>
    ELSE InsertItem(as_str, items[Len(items)],
                    natsorted(as_str, SubSeq(items, 1, Len(items) - 1)))

-----------------------------------------------------------------------------
(* Lookups and queries of a constructed map; self is the object's __dict__ *)

\* a dict as a function: the function with no key
EmptyDict == <<>>

\* BinaryMap.sub_to_i
sub_to_i(self, sub) ==
    IF sub \in DOMAIN self._sub_to_i THEN Ok(self._sub_to_i[sub])
    ELSE Raise("sub is not in the binary map", sub)

\* i_to_sub without the test `i in self._wt_index_set`: a wildtype index gives
\* its wildtype-to-wildtype string
i_to_sub_keeps_wt(self, i) ==
    IF i \in DOMAIN self._i_to_sub THEN Ok(self._i_to_sub[i])
    ELSE IF i < 0 \/ i >= self.binarylength THEN Raise("invalid i", i)
    ELSE Raise("unexpected error, i should be in map", i)

\* BinaryMap.i_to_sub
i_to_sub(self, i) ==
    IF i \in self._wt_index_set THEN Ok(<<>>)
    ELSE IF i \in DOMAIN self._i_to_sub THEN Ok(self._i_to_sub[i])
    ELSE IF i < 0 \/ i >= self.binarylength THEN Raise("invalid i", i)
    ELSE Raise("unexpected error, i should be in map", i)

\* the first loop of sub_str_to_indices without the test `site in sites`
RECURSIVE TokenIndicesAnySite(_, _, _, _)
TokenIndicesAnySite(self, tokens, sites, indices) ==
    IF tokens = <<>> THEN Ok([sites |-> sites, indices |-> indices])
    ELSE LET p == _parse_sub_str(self.alphabet, self.sites_as_str, Head(tokens))
         IN  IF ~p.ok THEN p
             ELSE LET i == sub_to_i(self, Head(tokens))
                  IN  IF ~i.ok THEN i
                      ELSE TokenIndicesAnySite(self, Tail(tokens),
                                               sites \cup {p.val.site},
                                               Append(indices, i.val))

\* the first loop of sub_str_to_indices, over the tokens of sub_str
RECURSIVE TokenIndices(_, _, _, _)
TokenIndices(self, tokens, sites, indices) ==
    IF tokens = <<>> THEN Ok([sites |-> sites, indices |-> indices])
    ELSE LET p == _parse_sub_str(self.alphabet, self.sites_as_str, Head(tokens))
         IN  IF ~p.ok THEN p
             ELSE IF p.val.site \in sites
             THEN Raise("multiple subs at same site", Head(tokens))
             ELSE LET i == sub_to_i(self, Head(tokens))
                  IN  IF ~i.ok THEN i
                      ELSE TokenIndices(self, Tail(tokens), sites \cup {p.val.site},
                                        Append(indices, i.val))

\* the second loop of sub_str_to_indices without the test `site not in sites`:
\* the wildtype index of every site
WtIndicesEverySite(self, sites) ==
    [k \in DOMAIN self._wt_indices |-> self._wt_indices[k][2]]

\* the second loop of sub_str_to_indices: the wildtype index of every site
\* of self._wt_indices (a list of (site, index) in insertion order) that no
\* token names
WtIndices(self, sites) ==
    LET keep == {k \in DOMAIN self._wt_indices : self._wt_indices[k][1] \notin sites}
    IN  [k \in 1..Cardinality(keep) |->
            self._wt_indices[CHOOSE j \in keep :
                Cardinality({m \in keep : m < j}) = k - 1][2]]

\* BinaryMap.sub_str_to_indices
sub_str_to_indices(self, sub_str) ==
    LET t == TokenIndices(self, Split(sub_str), {}, <<>>)
    IN  IF ~t.ok THEN t
        ELSE Ok(SortedInts(t.val.indices \o WtIndices(self, t.val.sites)))

\* the number of times x occurs in the list xs
Count(xs, x) == Cardinality({k \in DOMAIN xs : xs[k] = x})

\* BinaryMap.sub_str_to_binary: a vector is the list of its entries, entry i
\* of the array at position i + 1 of the list
sub_str_to_binary(self, sub_str) ==
    LET r == sub_str_to_indices(self, sub_str)
    IN  IF ~r.ok THEN r
        ELSE Ok([k \in 1..self.binarylength |->
                    IF k - 1 \in Range(r.val) THEN 1 ELSE 0])

\* numpy.flatnonzero(binary), ascending
FlatNonzero(binary) ==
    LET nz == {k \in DOMAIN binary : binary[k] # 0}
    IN  [j \in 1..Cardinality(nz) |->
            (CHOOSE k \in nz : Cardinality({m \in nz : m < k}) = j - 1) - 1]

\* the elements of xs that satisfy keep, in order
RECURSIVE NonEmpty(_)
NonEmpty(xs) ==
    IF xs = <<>> THEN <<>>
    ELSE IF Head(xs) = <<>> THEN NonEmpty(Tail(xs))
    ELSE <<Head(xs)>> \o NonEmpty(Tail(xs))

\* BinaryMap.binary_to_sub_str
binary_to_sub_str(self, binary) ==
    IF Len(binary) # self.binarylength
    THEN Raise("binary not length binarylength", binary)
    ELSE IF ~(Range(binary) \subseteq {0, 1})
    THEN Raise("binary not all 0 or 1", binary)
    ELSE LET nz == FlatNonzero(binary)
             looked == [k \in DOMAIN nz |-> i_to_sub(self, nz[k])]
         IN  IF \E k \in DOMAIN looked : ~looked[k].ok
             THEN looked[CHOOSE k \in DOMAIN looked :
                            ~looked[k].ok /\ \A j \in 1..(k - 1) : looked[j].ok]
             ELSE LET subs == NonEmpty([k \in DOMAIN looked |-> looked[k].val])
                      parsed == [k \in DOMAIN subs |->
                                    _parse_sub_str(self.alphabet, self.sites_as_str, subs[k])]
                  IN  IF \E k \in DOMAIN parsed : ~parsed[k].ok
                      THEN parsed[CHOOSE k \in DOMAIN parsed :
                                     ~parsed[k].ok /\ \A j \in 1..(k - 1) : parsed[j].ok]
                      ELSE IF Len(subs) # Cardinality({parsed[k].val.site : k \in DOMAIN parsed})
                      THEN Raise("binary specifies multiple substitutions at same site",
                                 binary)
                      ELSE Ok(Join(subs))

\* the list the property all_subs computes
AllSubsList(self) ==
    NonEmpty([k \in 1..self.binarylength |-> i_to_sub(self, k - 1).val])

\* BinaryMap.__eq__ for two objects of the class: the same attribute names,
\* and every attribute equal
__eq__(self, other) ==
    IF self.has_all_subs # other.has_all_subs THEN FALSE
    ELSE /\ self.nvariants = other.nvariants
         /\ self.alphabet = other.alphabet
         /\ self.sites_as_str = other.sites_as_str
         /\ self.substitution_variants = other.substitution_variants
         /\ self._i_to_sub = other._i_to_sub
         /\ self._wt_indices = other._wt_indices
         /\ self.binary_sites = other.binary_sites
         /\ self.binarylength = other.binarylength
         /\ self._sub_to_i = other._sub_to_i
         /\ self._wt_index_set = other._wt_index_set
         /\ self.binary_variants = other.binary_variants
         /\ self._all_subs = other._all_subs

-----------------------------------------------------------------------------
(* BinaryMap.__init__ *)

\* {s for subs in substitutions for s in subs.split()}
SubsInVariants(substitutions) ==
    UNION {Range(Split(substitutions[k])) : k \in DOMAIN substitutions}

\* the difference taken the other way round
ExtraSubsSwapped(substitutions, allowed) ==
    SortedStrs(allowed.val \ SubsInVariants(substitutions))

\* sorted(subs_in_variants - allowed_subs)
ExtraSubs(substitutions, allowed) ==
    SortedStrs(SubsInVariants(substitutions) \ allowed.val)

\* the loop without `subs_in_variants = allowed_subs`
IteratedSubsObserved(substitutions, allowed) ==
    SubsInVariants(substitutions)

\* the set the loop `for sub in subs_in_variants` iterates over
IteratedSubs(substitutions, allowed) ==
    IF allowed = None THEN SubsInVariants(substitutions) ELSE allowed.val

\* every order in which a set can be iterated
RECURSIVE IterationOrders(_)
IterationOrders(S) ==
    IF S = {} THEN {<<>>}
    ELSE UNION {{<<x>> \o q : q \in IterationOrders(S \ {x})} : x \in S}

\* the loop `for sub in subs_in_variants`, iterating in `order`: wts is the
\* dict as the list of its (site, wt) items in insertion order, muts the
\* (site, mut) pairs of the sets muts[site]
RECURSIVE CollectSubs(_, _, _, _, _)
CollectSubs(alph, as_str, order, wts, muts) ==
    IF order = <<>> THEN Ok([wts |-> wts, muts |-> muts])
    ELSE LET p == _parse_sub_str(alph, as_str, Head(order))
         IN  IF ~p.ok THEN p
             ELSE LET known == {k \in DOMAIN wts : wts[k][1] = p.val.site}
                  IN  IF known # {} /\ \E k \in known : wts[k][2] # p.val.wt
                      THEN Raise("different wildtypes at site", p.val.site)
                      ELSE CollectSubs(alph, as_str, Tail(order),
                               IF known = {} THEN Append(wts, <<p.val.site, p.val.wt>>)
                               ELSE wts,
                               muts \cup {<<p.val.site, p.val.mut>>})

\* the key of a plain sorted(muts[site]): the code point of the character
char_order_lexical(alph, c) == Ord(c)

\* char_order = {c: i for i, c in enumerate(self.alphabet)}
char_order(alph, c) == (CHOOSE k \in DOMAIN alph :
                          alph[k] = c /\ \A j \in DOMAIN alph : alph[j] = c => j <= k) - 1

\* sorted(muts[site], key=lambda m: char_order[m[-1]])
RECURSIVE SortedMuts(_, _)
SortedMuts(alph, M) ==
    IF M = {} THEN <<>>
    ELSE LET m == CHOOSE x \in M : \A y \in M : char_order(alph, x) <= char_order(alph, y)
         IN  <<m>> \o SortedMuts(alph, M \ {m})

\* the (site, wt, char) of the observed-only branch in loop order: the sites
\* natsorted, the mutants of a site in alphabet order
RECURSIVE ObservedEntries(_, _, _)
ObservedEntries(alph, items, muts) ==
    IF items = <<>> THEN <<>>
    ELSE LET site == Head(items)[1]
             ms == SortedMuts(alph, {m[2] : m \in {x \in muts : x[1] = site}})
         IN  [k \in DOMAIN ms |-> [site |-> site, wt |-> Head(items)[2], char |-> ms[k]]]
             \o ObservedEntries(alph, Tail(items), muts)

\* the (site, wt, char) of the expand branch in loop order: every character
\* of the alphabet at every site of wtseq, sites counted from `site`
RECURSIVE ExpandEntries(_, _, _)
ExpandEntries(alph, wts_left, site) ==
    IF wts_left = <<>> THEN <<>>
    ELSE [k \in DOMAIN alph |-> [site |-> site, wt |-> Head(wts_left), char |-> alph[k]]]
         \o ExpandEntries(alph, Tail(wts_left), site + 1)

\* the body both loops share: binary_sites.append(site),
\* _i_to_sub[i] = f"{wt}{site}{char}", i += 1 and, with wt_index, the
\* wildtype index of the site
RECURSIVE AssignIndices(_, _, _, _)
AssignIndices(as_str, entries, wt_index, reg) ==
    IF entries = <<>> THEN reg
    ELSE LET e == Head(entries)
         IN  AssignIndices(as_str, Tail(entries), wt_index,
                 [i |-> reg.i + 1,
                  binary_sites |-> Append(reg.binary_sites, e.site),
                  _i_to_sub |-> reg._i_to_sub @@
                                (reg.i :> FormatSub(as_str, e.wt, e.site, e.char)),
                  _wt_indices |-> IF wt_index /\ e.char = e.wt
                                  THEN Append(reg._wt_indices, <<e.site, reg.i>>)
                                  ELSE reg._wt_indices])

EmptyRegistry == [i |-> 0, binary_sites |-> <<>>, _i_to_sub |-> EmptyDict,
                  _wt_indices |-> <<>>]

\* min(wts.keys()) and max(wts.keys())
MinSite(wts) == CHOOSE x \in {wts[k][1] : k \in DOMAIN wts} :
                    \A y \in {wts[k][1] : k \in DOMAIN wts} : x <= y
MaxSite(wts) == CHOOSE x \in {wts[k][1] : k \in DOMAIN wts} :
                    \A y \in {wts[k][1] : k \in DOMAIN wts} : x >= y

\* the registry without the check that wtseq is over the alphabet
BuildRegistryAnyWtseq(alph, allowed, as_str, expand_, wtseq_, wts, muts) ==
    IF expand_
    THEN IF as_str THEN Raise("cannot use both expand and sites_as_str", <<>>)
         ELSE IF allowed # None THEN Raise("cannot use both expand and allowed_subs", <<>>)
         ELSE IF wtseq_ = None THEN Raise("wtseq must be str if expand is True", <<>>)
         ELSE IF wts = <<>> THEN Raise("min() arg is an empty sequence", <<>>)
         ELSE IF MinSite(wts) < 1
         THEN Raise("if expand, site numbers must start at 1", MinSite(wts))
         ELSE IF MaxSite(wts) > Len(wtseq_.val)
         THEN Raise("wtseq not long enough given site numbers", MaxSite(wts))
         ELSE IF \E k \in DOMAIN wts : wtseq_.val[wts[k][1]] # wts[k][2]
         THEN Raise("wtseq and func_scores_df differ on identity at site", <<>>)
         ELSE Ok(AssignIndices(as_str, ExpandEntries(alph, wtseq_.val, 1), TRUE, EmptyRegistry))
    ELSE IF wtseq_ # None THEN Raise("wtseq should be None if expand is False", wtseq_.val)
         ELSE Ok(AssignIndices(as_str,
                               ObservedEntries(alph, natsorted(as_str, wts), muts),
                               FALSE, EmptyRegistry))

\* the registry (lines 503-544): the checks of the branch taken, then its loop
BuildRegistry(alph, allowed, as_str, expand_, wtseq_, wts, muts) ==
    IF expand_
    THEN IF as_str THEN Raise("cannot use both expand and sites_as_str", <<>>)
         ELSE IF allowed # None THEN Raise("cannot use both expand and allowed_subs", <<>>)
         ELSE IF wtseq_ = None THEN Raise("wtseq must be str if expand is True", <<>>)
         ELSE IF ~(Range(wtseq_.val) \subseteq Range(alph))
         THEN Raise("wtseq has characters not in alphabet", wtseq_.val)
         ELSE IF wts = <<>> THEN Raise("min() arg is an empty sequence", <<>>)
         ELSE IF MinSite(wts) < 1
         THEN Raise("if expand, site numbers must start at 1", MinSite(wts))
         ELSE IF MaxSite(wts) > Len(wtseq_.val)
         THEN Raise("wtseq not long enough given site numbers", MaxSite(wts))
         ELSE IF \E k \in DOMAIN wts : wtseq_.val[wts[k][1]] # wts[k][2]
         THEN Raise("wtseq and func_scores_df differ on identity at site", <<>>)
         ELSE Ok(AssignIndices(as_str, ExpandEntries(alph, wtseq_.val, 1), TRUE, EmptyRegistry))
    ELSE IF wtseq_ # None THEN Raise("wtseq should be None if expand is False", wtseq_.val)
         ELSE Ok(AssignIndices(as_str,
                               ObservedEntries(alph, natsorted(as_str, wts), muts),
                               FALSE, EmptyRegistry))

\* the inverse dict numbered from 1
InvertDictFromOne(d) ==
    [sub \in {d[i] : i \in DOMAIN d} |->
        1 + CHOOSE i \in DOMAIN d : d[i] = sub /\ \A j \in DOMAIN d : d[j] = sub => j <= i]

\* self._sub_to_i = {sub: i for i, sub in self._i_to_sub.items()}: of two
\* indices with one substitution the later one stays
InvertDict(d) ==
    [sub \in {d[i] : i \in DOMAIN d} |->
        CHOOSE i \in DOMAIN d : d[i] = sub /\ \A j \in DOMAIN d : d[j] = sub => j <= i]

\* a row of scipy.sparse.csr_array((ones, (row_ind, col_ind))): an entry is
\* the number of times its column was appended for the row
MatrixRow(binarylength, indices) ==
    [k \in 1..binarylength |-> Count(indices, k - 1)]

\* the loop that builds binary_variants with the rows taken last record first
RECURSIVE BuildRowsLastFirst(_, _, _)
BuildRowsLastFirst(self, substitutions, rows) ==
    IF substitutions = <<>> THEN Ok(rows)
    ELSE LET r == sub_str_to_indices(self, Head(substitutions))
         IN  IF ~r.ok THEN r
             ELSE BuildRowsLastFirst(self, Tail(substitutions),
                                     <<MatrixRow(self.binarylength, r.val)>> \o rows)

\* the loop that builds binary_variants (lines 554-565): the rows so far, or
\* what sub_str_to_indices raised
RECURSIVE BuildRows(_, _, _)
BuildRows(self, substitutions, rows) ==
    IF substitutions = <<>> THEN Ok(rows)
    ELSE LET r == sub_str_to_indices(self, Head(substitutions))
         IN  IF ~r.ok THEN r
             ELSE BuildRows(self, Tail(substitutions),
                            Append(rows, MatrixRow(self.binarylength, r.val)))

\* the character of the alphabet the regex cannot be built from
InvalidAlphabetChars(alph) ==
    {k \in DOMAIN alph : ~IsAlpha(alph[k]) /\ alph[k] \notin {"*", "-"}}

\* the attributes of the object once the registry is built, before
\* binary_variants is
NewObject(substitutions, alph, as_str, reg) ==
    [nvariants |-> Len(substitutions),
     alphabet |-> alph,
     sites_as_str |-> as_str,
     substitution_variants |-> substitutions,
     _i_to_sub |-> reg._i_to_sub,
     _wt_indices |-> reg._wt_indices,
     binary_sites |-> reg.binary_sites,
     binarylength |-> Cardinality(DOMAIN reg._i_to_sub),
     _sub_to_i |-> InvertDict(reg._i_to_sub),
     _wt_index_set |-> {reg._wt_indices[k][2] : k \in DOMAIN reg._wt_indices},
     binary_variants |-> <<>>,
     has_all_subs |-> FALSE,
     _all_subs |-> <<>>]

\* lines 552-565: the assertion, then binary_variants
WithRows(self, rows) ==
    IF Cardinality(DOMAIN self._sub_to_i) # self.binarylength
    THEN [ok |-> FALSE, exc |-> "AssertionError",
          msg |-> "assert len(_sub_to_i) == len(_i_to_sub)", arg |-> <<>>]
    ELSE IF ~rows.ok THEN rows
    ELSE Ok([self EXCEPT !.binary_variants = rows.val])

FinishInit(self) == WithRows(self, BuildRows(self, self.substitution_variants, <<>>))

\* lines 503-565, given what the loop over the substitutions returned
AfterCollect(substitutions, alph, as_str, b) ==
    IF ~b.ok THEN b ELSE FinishInit(NewObject(substitutions, alph, as_str, b.val))

\* BinaryMap.__init__ for records that hold the substitutions column only,
\* with the set of substitutions iterated in `order`: the new object's
\* __dict__, or the exception raised
BinaryMap(substitutions, alph, allowed, as_str, expand_, wtseq_, order) ==
    IF InvalidAlphabetChars(alph) # {}
    THEN Raise("invalid alphabet character", alph)
    ELSE IF allowed # None /\ ExtraSubs(substitutions, allowed) # <<>>
    THEN Raise("substitutions not in allowed_subs", ExtraSubs(substitutions, allowed))
    ELSE LET c == CollectSubs(alph, as_str, order, <<>>, {})
         IN  IF ~c.ok THEN c
             ELSE AfterCollect(substitutions, alph, as_str,
                      BuildRegistry(alph, allowed, as_str, expand_, wtseq_,
                                    c.val.wts, c.val.muts))

-----------------------------------------------------------------------------
(* The inputs the model draws from *)

\* the most records an input holds
MaxRecords == 2

\* the alphabet: its order is not the order of the code points ("*" < "A")
Alphabet == <<"A", "C", "*">>

\* f"{wt}{site}{mut}" of a written site
Tok(wt, site, mut) == <<wt>> \o site \o <<mut>>

A1C == Tok("A", <<"1">>, "C")
A1star == Tok("A", <<"1">>, "*")
C2A == Tok("C", <<"2">>, "A")
A01C == Tok("A", <<"0", "1">>, "C")
Cminus1A == Tok("C", <<"-", "1">>, "A")
A1A == Tok("A", <<"1">>, "A")
C1A == Tok("C", <<"1">>, "A")
A1aC == Tok("A", <<"1", "a">>, "C")
C10A == Tok("C", <<"1", "0">>, "A")

\* the variant strings a record holds: the wildtype, one substitution, two
\* substitutions out of site order and two spaces apart, two at one site, a
\* site written with a leading zero, a negative site, wildtype = mutant, a
\* second wildtype at site 1, a site with a letter suffix, a site of two
\* digits
Corpus ==
    << <<>>, A1C, A1star, C2A \o <<" ", " ">> \o A1C, Join(<<A1C, A1star>>), A01C,
       Cminus1A, A1A, C1A, A1aC, C10A >>

\* the strings a query is given: those of the records, one substitution
\* twice, and one site written in two ways
QueryStrs == Range(Corpus) \cup { Join(<<A1C, A1C>>), Join(<<A1C, A01C>>) }

\* the records of a program that constructs two maps
PairCorpus == { <<>>, A1C, A01C }

\* the values of allowed_subs
AllowedPool == { {A1C, A1star, C2A}, {A1C} }

\* the values of wtseq: a sequence over the alphabet, and one that is not
WtseqPool == { <<"A", "C">>, <<"A", "M">> }

\* the lists of at most n elements of S
RECURSIVE SeqsUpTo(_, _)
SeqsUpTo(S, n) ==
    IF n = 0 THEN {<<>>}
    ELSE LET shorter == SeqsUpTo(S, n - 1)
         IN  shorter \cup {Append(q, x) : q \in {r \in shorter : Len(r) = n - 1}, x \in S}

\* the lists of at most n strings of the list `corpus`, in the order of
\* `corpus`, a string any number of times: the registry is built from the set
\* of the tokens, and the programs below that build a second map take the
\* records in other orders
RecordLists(corpus, n) ==
    UNION {{[k \in 1..len |-> corpus[f[k]]] :
               f \in {g \in [1..len -> DOMAIN corpus] :
                          \A a, b \in 1..len : a < b => g[a] <= g[b]}} :
           len \in 0..n}

\* an object of the program before its constructor has run
Unbuilt == [built |-> FALSE, failed |-> FALSE]

\* the names the program binds a BinaryMap to
ObjNames == {"bmap1", "bmap2"}

NoCall == [op |-> "none"]

\* the records are one of the lists `dfs`, the options any of the given ones
InitWith(dfs, as_strs, alloweds, expands, wtseqs) ==
    /\ alphabet = Alphabet
    /\ allowed_subs \in alloweds
    /\ sites_as_str \in as_strs
    /\ expand \in expands
    /\ wtseq \in wtseqs
    /\ func_scores_df \in dfs
    /\ objs = [k \in ObjNames |-> Unbuilt]
    /\ last = NoCall

Init ==
    InitWith(RecordLists(Corpus, MaxRecords), BOOLEAN,
             {None} \cup {Some(S) : S \in AllowedPool}, BOOLEAN,
             {None} \cup {Some(w) : w \in WtseqPool})

-----------------------------------------------------------------------------
(* The calls of the program *)

Built(k) == objs[k].built

\* k = BinaryMap(df, alphabet=..., allowed_subs=..., sites_as_str=...,
\* expand=..., wtseq=...): the set of substitutions is iterated in some order
Construct(k, df) ==
    /\ objs[k] = Unbuilt
    /\ \E order \in IterationOrders(IteratedSubs(df, allowed_subs)) :
         LET r == BinaryMap(df, alphabet, allowed_subs, sites_as_str, expand, wtseq, order)
         IN  /\ objs' = [objs EXCEPT ![k] =
                            IF r.ok THEN [built |-> TRUE, failed |-> FALSE, self |-> r.val]
                            ELSE [built |-> FALSE, failed |-> TRUE, error |-> r]]
             /\ last' = [op |-> "__init__", obj |-> k, arg |-> df,
                         res |-> IF r.ok THEN Ok(<<>>) ELSE r]
    /\ UNCHANGED options

\* k.sub_str_to_indices(s)
SubStrToIndices(k, strs) ==
    /\ Built(k)
    /\ \E s \in strs :
         last' = [op |-> "sub_str_to_indices", obj |-> k, arg |-> s,
                  res |-> sub_str_to_indices(objs[k].self, s)]
    /\ UNCHANGED <<options, objs>>

\* k.sub_str_to_binary(s)
SubStrToBinary(k, strs) ==
    /\ Built(k)
    /\ \E s \in strs :
         last' = [op |-> "sub_str_to_binary", obj |-> k, arg |-> s,
                  res |-> sub_str_to_binary(objs[k].self, s)]
    /\ UNCHANGED <<options, objs>>

\* the vectors a query is given: the rows of the matrix and the zero vector,
\* each as it is, with one entry flipped, with a 2, one entry longer and one
\* entry shorter
QueryVectors(self) ==
    LET base == Range(self.binary_variants) \cup {[k \in 1..self.binarylength |-> 0]}
    IN  base
        \cup {[b EXCEPT ![k] = 1 - b[k]] : b \in base, k \in 1..self.binarylength}
        \cup {[b EXCEPT ![1] = 2] : b \in {x \in base : x # <<>>}}
        \cup {Append(b, 0) : b \in base}
        \cup {Tail(b) : b \in {x \in base : x # <<>>}}

\* k.binary_to_sub_str(b)
BinaryToSubStr(k) ==
    /\ Built(k)
    /\ \E b \in QueryVectors(objs[k].self) :
         last' = [op |-> "binary_to_sub_str", obj |-> k, arg |-> b,
                  res |-> binary_to_sub_str(objs[k].self, b)]
    /\ UNCHANGED <<options, objs>>

\* k.i_to_sub(i)
IToSub(k) ==
    /\ Built(k)
    /\ \E i \in (0 - 1)..objs[k].self.binarylength :
         last' = [op |-> "i_to_sub", obj |-> k, arg |-> i,
                  res |-> i_to_sub(objs[k].self, i)]
    /\ UNCHANGED <<options, objs>>

\* k.sub_to_i(sub)
SubToI(k, strs) ==
    /\ Built(k)
    /\ \E sub \in UNION {Range(Split(s)) : s \in strs}
                  \cup {objs[k].self._i_to_sub[i] : i \in DOMAIN objs[k].self._i_to_sub} :
         last' = [op |-> "sub_to_i", obj |-> k, arg |-> sub,
                  res |-> sub_to_i(objs[k].self, sub)]
    /\ UNCHANGED <<options, objs>>

\* k.all_subs: the first access stores the list in the attribute _all_subs
AllSubs(k) ==
    /\ Built(k)
    /\ LET self == objs[k].self
           list == IF self.has_all_subs THEN self._all_subs ELSE AllSubsList(self)
       IN  /\ objs' = [objs EXCEPT ![k].self.has_all_subs = TRUE,
                                   ![k].self._all_subs = list]
           /\ last' = [op |-> "all_subs", obj |-> k, arg |-> <<>>, res |-> Ok(list)]
    /\ UNCHANGED options

\* k == j
Eq(k, j) ==
    /\ Built(k)
    /\ Built(j)
    /\ last' = [op |-> "__eq__", obj |-> k, arg |-> j,
                res |-> Ok(__eq__(objs[k].self, objs[j].self))]
    /\ UNCHANGED <<options, objs>>

\* a program that constructs one map from the records and queries it
Next ==
    \/ Construct("bmap1", func_scores_df)
    \/ SubStrToIndices("bmap1", QueryStrs)
    \/ SubStrToBinary("bmap1", QueryStrs)
    \/ BinaryToSubStr("bmap1")
    \/ IToSub("bmap1")
    \/ SubToI("bmap1", QueryStrs)
    \/ AllSubs("bmap1")
    \/ Eq("bmap1", "bmap1")

Spec == Init /\ [][Next]_vars

\* xs[::-1]
Reverse(xs) == [k \in DOMAIN xs |-> xs[Len(xs) + 1 - k]]

\* the records in the other order, and with the substitutions of every
\* record in the other order
Reorderings(df) ==
    LET flipped == [k \in DOMAIN df |-> Join(Reverse(Split(df[k])))]
    IN  {df, Reverse(df), flipped, Reverse(flipped)}

\* a program that constructs two maps, from the records and from the same
\* substitutions in another order, and queries and compares them
NextPair ==
    \E k \in ObjNames :
        \/ k = "bmap1" /\ Construct(k, func_scores_df)
        \/ k = "bmap2" /\ \E df \in Reorderings(func_scores_df) : Construct(k, df)
        \/ SubStrToIndices(k, PairCorpus)
        \/ SubStrToBinary(k, PairCorpus)
        \/ BinaryToSubStr(k)
        \/ IToSub(k)
        \/ SubToI(k, PairCorpus)
        \/ AllSubs(k)
        \/ \E j \in ObjNames : Eq(k, j)

\* two maps with int sites
InitPair ==
    InitWith(SeqsUpTo(PairCorpus, MaxRecords), {FALSE}, {None}, {FALSE}, {None})

SpecPair == InitPair /\ [][NextPair]_vars

\* two maps with int or with str sites
InitReorder ==
    InitWith(SeqsUpTo(PairCorpus, MaxRecords), BOOLEAN, {None}, {FALSE}, {None})

SpecReorder == InitReorder /\ [][NextPair]_vars

\* k._parse_sub_str(sub)
ParseSubStr(k, strs) ==
    /\ Built(k)
    /\ \E sub \in strs :
         last' = [op |-> "_parse_sub_str", obj |-> k, arg |-> sub,
                  res |-> _parse_sub_str(objs[k].self.alphabet,
                                         objs[k].self.sites_as_str, sub)]
    /\ UNCHANGED <<options, objs>>

Aarabic1C == Tok("A", <<"u0661">>, "C")
star1A == Tok("*", <<"1">>, "A")
Aminus0C == Tok("A", <<"-", "0">>, "C")

\* the strings _parse_sub_str is given: tokens of the grammar with a plain, a
\* zero-padded, a negative and a minus-zero site, a wildtype "*", a site of
\* U+0661, a site with a letter suffix, and strings with wildtype = mutant,
\* no site, no mutant, no wildtype, a wildtype outside the alphabet, a lone
\* minus sign and two minus signs for a site, a sign "+", a space, and ''
ParseStrs ==
    { A1C, A01C, Cminus1A, Aminus0C, star1A, C10A, Aarabic1C, A1aC, A1A,
      <<"A", "C">>, <<"A", "1">>, <<"1", "C">>, <<"M", "1", "C">>,
      <<"A", "-", "C">>, <<"A", "-", "-", "1", "C">>, <<"A", "+", "1", "C">>,
      <<"A", " ", "C">>, <<>> }

\* the records of a program that parses tokens
ParseCorpus == << <<>>, A1C, C2A >>

\* a program that constructs one map and parses tokens with it
NextParse ==
    \/ Construct("bmap1", func_scores_df)
    \/ ParseSubStr("bmap1", ParseStrs)

InitParse ==
    InitWith(RecordLists(ParseCorpus, MaxRecords), BOOLEAN, {None}, {FALSE}, {None})

SpecParse == InitParse /\ [][NextParse]_vars

-----------------------------------------------------------------------------
(* What the properties below speak of *)

B1 == objs["bmap1"]
B2 == objs["bmap2"]
Self1 == objs["bmap1"].self
Self2 == objs["bmap2"].self

\* the position of a character in the alphabet of the program
AlphabetPos(c) == CHOOSE k \in DOMAIN alphabet : alphabet[k] = c

\* the (wt, site, mut) a token is written as, for a token of the grammar
Parsed(t) == _parse_sub_str(alphabet, sites_as_str, t).val

\* site a comes before site b: as numbers for int sites, in natural order for
\* str sites
SiteBefore(a, b) ==
    IF sites_as_str THEN KeyLess(NatKey(TRUE, a), NatKey(TRUE, b)) ELSE a < b

\* the sum of a list of numbers
RECURSIVE Sum(_)
Sum(xs) == IF xs = <<>> THEN 0 ELSE Head(xs) + Sum(Tail(xs))

\* the tokens of s in ascending order of their registry index
Canonical(self, s) ==
    Join(CHOOSE q \in IterationOrders(Range(Split(s))) :
            \A a, b \in DOMAIN q : a < b => self._sub_to_i[q[a]] < self._sub_to_i[q[b]])

-----------------------------------------------------------------------------
\* C1: in a constructed map, every variant string s of the records encodes,
\* and decoding its binary vector gives the tokens of s joined by single
\* spaces in ascending order of registry index (for int sites: of site); the
\* empty string gives the empty string.
C1_RoundTrip ==
    Built("bmap1") =>
        \A k \in DOMAIN Self1.substitution_variants :
            LET s == Self1.substitution_variants[k]
                enc == sub_str_to_binary(Self1, s)
                canon == Canonical(Self1, s)
                toks == Split(canon)
            IN  /\ enc.ok
                /\ binary_to_sub_str(Self1, enc.val) = Ok(canon)
                /\ s = <<>> => canon = <<>>
                /\ ~sites_as_str =>
                       \A a, b \in DOMAIN toks :
                           a < b => Parsed(toks[a]).site < Parsed(toks[b]).site

\* an expand-mode map has decoded the vector of a record whose tokens were
\* written out of order, into the reordered string
C1_Witness ==
    /\ Built("bmap1")
    /\ expand
    /\ last.op = "binary_to_sub_str"
    /\ \E k \in DOMAIN Self1.substitution_variants :
           LET s == Self1.substitution_variants[k]
           IN  /\ Canonical(Self1, s) # s
               /\ last.arg = sub_str_to_binary(Self1, s).val
               /\ last.res = Ok(Canonical(Self1, s))

\* the vectors C3 says are refused: a wrong length, an entry that is not 0 or
\* 1, or two entries of 1 at indices of one site
Refusable(self, b) ==
    \/ Len(b) # self.binarylength
    \/ \E k \in DOMAIN b : b[k] \notin {0, 1}
    \/ \E i, j \in DOMAIN b :
           i < j /\ b[i] = 1 /\ b[j] = 1 /\ self.binary_sites[i] = self.binary_sites[j]

\* C3 as stated: binary_to_sub_str raises for every vector of the wrong
\* length, with an entry outside {0, 1}, or with two active indices of one
\* site, the wildtype index of the site included.
C3_Original ==
    (Built("bmap1") /\ last.op = "binary_to_sub_str" /\ Refusable(Self1, last.arg))
        => ~last.res.ok

\* C4: a map built with expand has binarylength = len(wtseq) * len(alphabet);
\* the indices of every string that encodes hold exactly one index per site
\* of wtseq, the index of the token at a mutated site and the wildtype index
\* elsewhere; every row of binary_variants sums to len(wtseq).
C4_ExpandRows ==
    (Built("bmap1") /\ expand) =>
        LET n == Len(wtseq.val)
        IN  /\ Self1.binarylength = n * Len(alphabet)
            /\ \A s \in QueryStrs :
                   LET r == sub_str_to_indices(Self1, s)
                       toks == Range(Split(s))
                   IN  r.ok =>
                         /\ Len(r.val) = n
                         /\ \A site \in 1..n :
                              LET at == {k \in DOMAIN r.val :
                                            Self1.binary_sites[r.val[k] + 1] = site}
                                  here == {t \in toks : Parsed(t).site = site}
                              IN  /\ Cardinality(at) = 1
                                  /\ \A k \in at :
                                       IF here # {}
                                       THEN Self1._i_to_sub[r.val[k]] \in here
                                       ELSE Self1._i_to_sub[r.val[k]] =
                                              <<wtseq.val[site]>> \o IntToStr(site)
                                                  \o <<wtseq.val[site]>>
            /\ \A k \in DOMAIN Self1.binary_variants :
                   Sum(Self1.binary_variants[k]) = n

\* an expand-mode map has encoded a one-substitution string: the mutant index
\* at site 1 and the wildtype index at site 2
C4_Witness ==
    /\ Built("bmap1")
    /\ expand
    /\ last.op = "sub_str_to_indices"
    /\ last.arg = A1C
    /\ last.res = Ok(<<1, 4>>)

\* C5: in a constructed map the indices are exactly 0..binarylength-1, no two
\* carry the same substitution, and sub_to_i and i_to_sub are inverse to each
\* other on the indices that are not wildtype indices.
C5_Bijection ==
    Built("bmap1") =>
        /\ DOMAIN Self1._i_to_sub = 0..(Self1.binarylength - 1)
        /\ \A i, j \in DOMAIN Self1._i_to_sub :
               i # j => Self1._i_to_sub[i] # Self1._i_to_sub[j]
        /\ \A i \in DOMAIN Self1._i_to_sub \ Self1._wt_index_set :
               LET sub == i_to_sub(Self1, i)
               IN  /\ sub.ok
                   /\ sub.val # <<>>
                   /\ sub_to_i(Self1, sub.val) = Ok(i)
                   /\ i_to_sub(Self1, sub_to_i(Self1, sub.val).val) = sub

\* i_to_sub has returned a substitution of a map of several indices, and
\* sub_to_i takes it back to the index
C5_Witness ==
    /\ Built("bmap1")
    /\ Self1.binarylength >= 2
    /\ last.op = "i_to_sub"
    /\ last.res.ok
    /\ last.res.val # <<>>
    /\ sub_to_i(Self1, last.res.val) = Ok(last.arg)

\* C6: without expand, the registry lists the distinct (site, mutant) pairs of
\* the substitutions of the variants (of the allowed set, if supplied), each
\* once, by ascending site and within a site by the position of the mutant in
\* the alphabet; binarylength is their number; there is no wildtype index.
C6_ObservedOrder ==
    (Built("bmap1") /\ ~expand) =>
        LET toks == IteratedSubs(Self1.substitution_variants, allowed_subs)
            pairs == {<<Parsed(t).site, Parsed(t).mut>> : t \in toks}
            L == Self1.binarylength
            site(i) == Self1.binary_sites[i + 1]
            mut(i) == Self1._i_to_sub[i][Len(Self1._i_to_sub[i])]
        IN  /\ L = Cardinality(pairs)
            /\ Len(Self1.binary_sites) = L
            /\ DOMAIN Self1._i_to_sub = 0..(L - 1)
            /\ {<<site(i), mut(i)>> : i \in 0..(L - 1)} = pairs
            /\ \A i \in 0..(L - 1) : Parsed(Self1._i_to_sub[i]).site = site(i)
            /\ \A i, j \in 0..(L - 1) :
                   i < j =>
                     /\ ~SiteBefore(site(j), site(i))
                     /\ site(i) = site(j) => AlphabetPos(mut(i)) < AlphabetPos(mut(j))
                     /\ site(i) = site(j) => \A m \in i..j : site(m) = site(i)
            /\ Self1._wt_indices = <<>>
            /\ Self1._wt_index_set = {}

\* a map of three substitutions: at site 1 the mutant C before the mutant *,
\* which the alphabet orders so and the code points do not
C6_Witness ==
    /\ Built("bmap1")
    /\ ~expand
    /\ Self1.binarylength = 3
    /\ Self1._i_to_sub[0] = A1C
    /\ Self1._i_to_sub[1] = A1star
    /\ Self1._i_to_sub[2] = C2A

\* C7: with an allowed set that lacks a substitution of the variants the
\* constructor raises, naming exactly the substitutions of the variants that
\* are not allowed, sorted, and no map exists; with an allowed set that holds
\* them all it does not raise this error.
C7_AllowedCheck ==
    (B1 # Unbuilt /\ allowed_subs # None) =>
        LET missing == SubsInVariants(func_scores_df) \ allowed_subs.val
        IN  IF missing # {}
            THEN /\ B1.failed
                 /\ B1.error.msg = "substitutions not in allowed_subs"
                 /\ Range(B1.error.arg) = missing
                 /\ Len(B1.error.arg) = Cardinality(missing)
                 /\ \A a, b \in DOMAIN B1.error.arg :
                        a < b => StrLess(B1.error.arg[a], B1.error.arg[b])
            ELSE ~(B1.failed /\ B1.error.msg = "substitutions not in allowed_subs")

\* the constructor has raised naming two substitutions
C7_Witness ==
    /\ B1.failed
    /\ B1.error.msg = "substitutions not in allowed_subs"
    /\ Len(B1.error.arg) = 2

\* the index of a token of the allowed set: that of the substitution it is
\* written as
HasIdx(self, t) ==
    FormatSub(sites_as_str, Parsed(t).wt, Parsed(t).site, Parsed(t).mut)
        \in DOMAIN self._sub_to_i
Idx(self, t) ==
    self._sub_to_i[FormatSub(sites_as_str, Parsed(t).wt, Parsed(t).site, Parsed(t).mut)]

\* token u sorts before token v: a smaller site, or the same site and a
\* mutant earlier in the alphabet
SortsBefore(u, v) ==
    \/ SiteBefore(Parsed(u).site, Parsed(v).site)
    \/ /\ Parsed(u).site = Parsed(v).site
       /\ AlphabetPos(Parsed(u).mut) < AlphabetPos(Parsed(v).mut)

\* C8 as stated: the substitutions of the allowed set that occur in no variant
\* have indices greater than every observed substitution.
C8_Original ==
    (Built("bmap1") /\ allowed_subs # None) =>
        LET observed == SubsInVariants(Self1.substitution_variants)
        IN  \A u \in allowed_subs.val \ observed : \A t \in observed :
                HasIdx(Self1, u) /\ HasIdx(Self1, t) /\ Idx(Self1, u) > Idx(Self1, t)

\* C8 as amended: the whole allowed set is indexed in ascending (site,
\* alphabet position) order, observed or not: every substitution of the
\* allowed set has an index, one that sorts before another has the smaller
\* index, and with int sites the index of a substitution is the number of
\* (site, mutant) pairs of the allowed set that sort before it.
C8_AllowedSorted ==
    (Built("bmap1") /\ allowed_subs # None) =>
        /\ \A u \in allowed_subs.val : HasIdx(Self1, u)
        /\ \A u, v \in allowed_subs.val :
               SortsBefore(u, v) => Idx(Self1, u) < Idx(Self1, v)
        /\ ~sites_as_str =>
               \A u \in allowed_subs.val :
                   Idx(Self1, u) =
                       Cardinality({<<Parsed(v).site, Parsed(v).mut>> :
                                       v \in {w \in allowed_subs.val : SortsBefore(w, u)}})

\* a map built with an allowed set in which a substitution no variant has
\* is indexed before one a variant has
C8_Witness ==
    /\ Built("bmap1")
    /\ allowed_subs # None
    /\ \E u \in allowed_subs.val \ SubsInVariants(Self1.substitution_variants) :
       \E t \in SubsInVariants(Self1.substitution_variants) :
           Idx(Self1, u) < Idx(Self1, t)

\* two tokens of s are of the grammar and name one site
TwoAtOneSite(s) ==
    LET toks == Split(s)
    IN  \E a, b \in DOMAIN toks :
            /\ a < b
            /\ SubRegexMatches(alphabet, sites_as_str, toks[a])
            /\ SubRegexMatches(alphabet, sites_as_str, toks[b])
            /\ ParsedSite(sites_as_str, SubSeq(toks[a], 2, Len(toks[a]) - 1))
                   = ParsedSite(sites_as_str, SubSeq(toks[b], 2, Len(toks[b]) - 1))

\* C9: sub_str_to_indices and sub_str_to_binary raise for every string with
\* two tokens at one site, the constructor raises for records that hold such
\* a string, and no row of a constructed map has two mutant indices of one
\* site.
C9_OnePerSite ==
    /\ Built("bmap1") =>
           /\ \A s \in QueryStrs :
                  TwoAtOneSite(s) =>
                      /\ ~sub_str_to_indices(Self1, s).ok
                      /\ ~sub_str_to_binary(Self1, s).ok
           /\ \A k \in DOMAIN Self1.binary_variants :
                  LET row == Self1.binary_variants[k]
                  IN  \A i, j \in DOMAIN row :
                          (/\ i < j
                           /\ row[i] >= 1
                           /\ row[j] >= 1
                           /\ (i - 1) \notin Self1._wt_index_set
                           /\ (j - 1) \notin Self1._wt_index_set)
                              => Self1.binary_sites[i] # Self1.binary_sites[j]
    /\ (B1 # Unbuilt /\ \E k \in DOMAIN func_scores_df : TwoAtOneSite(func_scores_df[k]))
           => B1.failed

\* a map that has both substitutions of site 1 was asked for the indices of
\* the string that holds both, and raised
C9_Witness ==
    /\ Built("bmap1")
    /\ last.op = "sub_str_to_indices"
    /\ last.arg = Join(<<A1C, A1star>>)
    /\ ~last.res.ok
    /\ last.res.msg = "multiple subs at same site"
    /\ sub_to_i(Self1, A1C).ok
    /\ sub_to_i(Self1, A1star).ok

\* C2 as stated: two maps built from the same records with the same options
\* are equal, whatever was called on either since.
C2_Original ==
    (/\ Built("bmap1")
     /\ Built("bmap2")
     /\ Self1.substitution_variants = Self2.substitution_variants)
        => __eq__(Self1, Self2)

\* C10 as stated: two maps built with the same options from records that hold
\* the same set of substitutions have the same index -> substitution mapping
\* and the same binary_sites.
C10_Original ==
    (/\ Built("bmap1")
     /\ Built("bmap2")
     /\ SubsInVariants(Self1.substitution_variants)
            = SubsInVariants(Self2.substitution_variants))
        => /\ Self1._i_to_sub = Self2._i_to_sub
           /\ Self1.binary_sites = Self2.binary_sites

\* the decimal digits of ASCII
AsciiDigits == {"0", "1", "2", "3", "4", "5", "6", "7", "8", "9"}

\* t is wt + site + mut of the grammar: wt and mut two different characters
\* of the alphabet, the site -?[0-9]+ for int sites and any non-empty
\* remainder for str sites
InGrammar(t) ==
    /\ Len(t) >= 3
    /\ t[1] \in Range(alphabet)
    /\ t[Len(t)] \in Range(alphabet)
    /\ t[1] # t[Len(t)]
    /\ \/ sites_as_str
       \/ LET site == SubSeq(t, 2, Len(t) - 1)
              d == IF Head(site) = "-" THEN Tail(site) ELSE site
          IN  d # <<>> /\ \A i \in DOMAIN d : d[i] \in AsciiDigits

\* C11 as stated: _parse_sub_str returns (wt, site, mut) exactly for the
\* tokens of the grammar, with the site as an int for int sites and as
\* written for str sites, and raises for every other string.
C11_Original ==
    (Built("bmap1") /\ last.op = "_parse_sub_str") =>
        LET t == last.arg
            site == SubSeq(t, 2, Len(t) - 1)
        IN  IF InGrammar(t)
            THEN last.res = Ok([wt |-> t[1],
                                site |-> IF sites_as_str THEN site ELSE StrToInt(site),
                                mut |-> t[Len(t)]])
            ELSE ~last.res.ok

\* C12: in a constructed map binary_variants has nvariants rows of
\* binarylength entries, row k is that of the k-th record of the input, and
\* its entry i is 1 if i is in sub_str_to_indices of that record and 0 if
\* not; no entry is greater than 1.
C12_MatrixRows ==
    Built("bmap1") =>
        /\ Self1.nvariants = Len(func_scores_df)
        /\ Self1.substitution_variants = func_scores_df
        /\ Len(Self1.binary_variants) = Self1.nvariants
        /\ \A k \in 1..Len(func_scores_df) :
               LET row == Self1.binary_variants[k]
                   idx == sub_str_to_indices(Self1, func_scores_df[k])
               IN  /\ idx.ok
                   /\ Len(row) = Self1.binarylength
                   /\ \A i \in 0..(Self1.binarylength - 1) :
                          row[i + 1] = IF i \in Range(idx.val) THEN 1 ELSE 0

\* a map of two records with different rows, the second with two entries 1
C12_Witness ==
    /\ Built("bmap1")
    /\ ~expand
    /\ func_scores_df = <<A1C, C2A \o <<" ", " ">> \o A1C>>
    /\ Self1.binary_variants = <<<<1, 0>>, <<1, 1>>>>

\* a token of the records is of the grammar for int sites and names a site
\* below 1, a site above len(wtseq), or a wildtype that is not the character
\* of wtseq at its site
SiteOrWildtypeOff ==
    \E t \in SubsInVariants(func_scores_df) :
        /\ _parse_sub_str(alphabet, FALSE, t).ok
        /\ LET p == _parse_sub_str(alphabet, FALSE, t).val
           IN  \/ p.site < 1
               \/ p.site > Len(wtseq.val)
               \/ wtseq.val[p.site] # p.wt

\* C13: a construction with expand raises a ValueError and builds no map
\* when wtseq has a character outside the alphabet, when a substitution of
\* the variants names a site below 1 or above len(wtseq) or a wildtype other
\* than that of wtseq at its site, and when expand comes with str sites or
\* with an allowed set.
C13_ExpandFails ==
    (/\ B1 # Unbuilt
     /\ expand
     /\ \/ sites_as_str
        \/ allowed_subs # None
        \/ /\ wtseq # None
           /\ \/ ~(Range(wtseq.val) \subseteq Range(alphabet))
              \/ SiteOrWildtypeOff)
        => /\ ~B1.built
           /\ B1.failed
           /\ B1.error.exc = "ValueError"

\* a construction with expand, int sites and no allowed set has raised
\* because wtseq has a character outside the alphabet, though every
\* substitution of the records agrees with wtseq
C13_Witness ==
    /\ expand
    /\ ~sites_as_str
    /\ allowed_subs = None
    /\ wtseq = Some(<<"A", "M">>)
    /\ func_scores_df = <<A1C>>
    /\ B1.failed
    /\ B1.error.msg = "wtseq has characters not in alphabet"

\* C14 as stated: with expand, int sites, no allowed set and a wtseq over the
\* alphabet, one or more records that all hold the empty string are
\* constructed into a map with binarylength = len(wtseq) * len(alphabet)
\* whose every row has 1 at the wildtype indices and 0 elsewhere.
C14_Original ==
    (/\ B1 # Unbuilt
     /\ expand
     /\ ~sites_as_str
     /\ allowed_subs = None
     /\ wtseq # None
     /\ Range(wtseq.val) \subseteq Range(alphabet)
     /\ func_scores_df # <<>>
     /\ \A k \in DOMAIN func_scores_df : func_scores_df[k] = <<>>)
        => /\ B1.built
           /\ Self1.binarylength = Len(wtseq.val) * Len(alphabet)
           /\ \A k \in DOMAIN Self1.binary_variants :
                  \A i \in 0..(Self1.binarylength - 1) :
                      Self1.binary_variants[k][i + 1] =
                          IF i \in Self1._wt_index_set THEN 1 ELSE 0

\* every token of the records parses, the tokens of one site have one
\* wildtype, and no record has two tokens at one site
RecordsConsistent ==
    /\ \A t \in SubsInVariants(func_scores_df) : _parse_sub_str(alphabet, sites_as_str, t).ok
    /\ \A t, u \in SubsInVariants(func_scores_df) :
           Parsed(t).site = Parsed(u).site => Parsed(t).wt = Parsed(u).wt
    /\ \A k \in DOMAIN func_scores_df : ~TwoAtOneSite(func_scores_df[k])

\* C15 as stated: with int sites, no expand and no allowed set, records whose
\* tokens all parse, agree on the wildtype of each site and are one per site
\* in a record are constructed into a map, and sub_str_to_indices of each
\* record returns the indices of the (site, mutant) pairs of its tokens,
\* however the site of a token is written.
C15_Original ==
    (/\ B1 # Unbuilt
     /\ ~expand
     /\ ~sites_as_str
     /\ allowed_subs = None
     /\ wtseq = None
     /\ RecordsConsistent)
        => /\ B1.built
           /\ \A k \in DOMAIN func_scores_df :
                  LET toks == Range(Split(func_scores_df[k]))
                      r == sub_str_to_indices(Self1, func_scores_df[k])
                      sub(i) == Self1._i_to_sub[i]
                  IN  /\ r.ok
                      /\ Len(r.val) = Cardinality(toks)
                      /\ Range(r.val) =
                             {i \in DOMAIN Self1._i_to_sub :
                                 \E t \in toks :
                                     /\ Parsed(t).site = Self1.binary_sites[i + 1]
                                     /\ Parsed(t).mut = sub(i)[Len(sub(i))]}

====
